---- MODULE Spec2Model ----
(***************************************************************************)
(* GenericElementFilter (src/src/genericelementfilter.js): the filter      *)
(* state, the matching predicate, the pass (filterElements) and the        *)
(* lifecycle operations that run it.                                       *)
(*                                                                         *)
(* Strings that the code splits, trims or compares are sequences of        *)
(* one-character strings.  Filter keys, which the code only uses as        *)
(* property names, are plain strings.  The DOM is the external             *)
(* collaborator: element.dataset[k] gives the declared data-* value or     *)
(* undefined, and keys range over ordinary data-attribute names.           *)
(***************************************************************************)
EXTENDS Integers, Sequences, FiniteSets, TLC

\* ------------------------------------------------------------------------
\* Strings
\* ------------------------------------------------------------------------

\* undefined / null: a value that is no string
Undefined == <<"undefined">>

sEmpty  == << >>
sAll    == <<"a","l","l">>
sSpring == <<"s","p","r","i","n","g">>
sSummer == <<"s","u","m","m","e","r">>
sForest == <<"f","o","r","e","s","t">>
sMeadow == <<"m","e","a","d","o","w">>
sFore   == <<"f","o","r","e">>
sForestCommaMeadow == <<"f","o","r","e","s","t",","," ","m","e","a","d","o","w">>
sForestSpaceMeadow == <<"f","o","r","e","s","t"," ","m","e","a","d","o","w">>

\* the characters matched by \s and removed by String.prototype.trim
IsWhitespace(c) == c \in {" ", "\t"}

RECURSIVE TrimStart(_)
TrimStart(s) ==
  IF s = << >> THEN << >>
  ELSE IF IsWhitespace(Head(s)) THEN TrimStart(Tail(s)) ELSE s

RECURSIVE TrimEnd(_)
TrimEnd(s) ==
  IF s = << >> THEN << >>
  ELSE IF IsWhitespace(s[Len(s)]) THEN TrimEnd(SubSeq(s, 1, Len(s) - 1)) ELSE s

\* String.prototype.trim
Trim(s) == TrimEnd(TrimStart(s))

\* hayRaw.indexOf(",") !== -1
HasComma(s) == \E i \in DOMAIN s : s[i] = ","

\* hayRaw.split(","): the pieces between commas, empty pieces included
RECURSIVE SplitCommaFrom(_, _)
SplitCommaFrom(s, cur) ==
  IF s = << >> THEN << cur >>
  ELSE IF Head(s) = "," THEN << cur >> \o SplitCommaFrom(Tail(s), << >>)
  ELSE SplitCommaFrom(Tail(s), Append(cur, Head(s)))

SplitComma(s) == SplitCommaFrom(s, << >>)

\* hayRaw.split(/\s+/): the pieces between maximal runs of whitespace; a
\* leading or trailing run yields an empty first or last piece
RECURSIVE SplitWhitespaceFrom(_, _, _)
SplitWhitespaceFrom(s, cur, inRun) ==
  IF s = << >> THEN << cur >>
  ELSE IF IsWhitespace(Head(s))
       THEN IF inRun
            THEN SplitWhitespaceFrom(Tail(s), cur, TRUE)
            ELSE << cur >> \o SplitWhitespaceFrom(Tail(s), << >>, TRUE)
       ELSE SplitWhitespaceFrom(Tail(s), Append(cur, Head(s)), FALSE)

SplitWhitespace(s) == SplitWhitespaceFrom(s, << >>, FALSE)

Parts_WhitespaceOnly(hayRaw) == SplitWhitespace(hayRaw)

\* parts: split on commas if any comma is present, else on whitespace runs
Parts(hayRaw) ==
  IF HasComma(hayRaw) THEN SplitComma(hayRaw) ELSE SplitWhitespace(hayRaw)

\* parts.map((p) => p.trim())
MapTrim(parts) == [i \in DOMAIN parts |-> Trim(parts[i])]

\* .filter(Boolean): drops the empty strings
FilterBoolean(parts) == SelectSeq(parts, LAMBDA p : p # << >>)

\* .some((p) => p === filterValue)
SomeEquals(parts, filterValue) == \E i \in DOMAIN parts : parts[i] = filterValue

\* the "contains" branch of the every() callback
ContainsMatch(elementValue, filterValue) ==
  LET hayRaw == Trim(elementValue) IN
    IF hayRaw = << >> THEN FALSE
    ELSE SomeEquals(FilterBoolean(MapTrim(Parts(hayRaw))), filterValue)

\* the default status formatter: (count) => `${count} results found`
Digit(n) == <<"0","1","2","3","4","5","6","7","8","9">>[n + 1]

RECURSIVE NumberToString(_)
NumberToString(n) ==
  IF n < 10 THEN << Digit(n) >>
  ELSE NumberToString(n \div 10) \o << Digit(n % 10) >>

sResultsFound == <<" ","r","e","s","u","l","t","s"," ","f","o","u","n","d">>

DefaultStatusFormatter(count) == NumberToString(count) \o sResultsFound

\* ------------------------------------------------------------------------
\* The page: content elements, filter controls, auxiliary targets
\* ------------------------------------------------------------------------

\* obj[k] = v on a plain object
Put(obj, k, v) == [x \in DOMAIN obj \cup {k} |-> IF x = k THEN v ELSE obj[x]]

EmptyObject == [x \in {} |-> Undefined]

\* The content elements of the page, in document order, with their data-*
\* attributes: the first declares none, the last declares no season.
DocOrder == <<"E1", "E2", "E3">>

Elems == {DocOrder[i] : i \in DOMAIN DocOrder}

ElemData(e) ==
  CASE e = "E1" -> EmptyObject
    [] e = "E2" -> [season |-> sSpring, tag |-> sForestCommaMeadow]
    [] e = "E3" -> [tag |-> sForest]

\* element.dataset[filterName]
DatasetGet(element, filterName) ==
  IF filterName \in DOMAIN ElemData(element)
  THEN ElemData(element)[filterName]
  ELSE Undefined

\* The named controls a page can hold, in document order. A page holds some
\* of them (the domain of ctl), and the engine is constructed with a
\* filtersSelector that matches every named control of its page.
ControlOrder == <<"c1", "c2", "c3", "c4", "c5", "c6", "c7", "c8", "c9">>

Controls == {ControlOrder[i] : i \in DOMAIN ControlOrder}

\* the controls of the page of the README's examples: a select and a text input
MainPage == {"c1", "c2"}

\* The pages: the main one; a select without an option for the sentinel; a
\* select without options; a checkbox; a group of two radio buttons; a
\* fieldset (a name, no value); a select whose name is empty; a page without
\* controls.
Pages == {MainPage, {"c3"}, {"c4"}, {"c5"}, {"c6", "c7"}, {"c8"}, {"c9"}, {}}

\* kind: "select" (HTMLSelectElement), "checkbox", "radio", "text"
\* (HTMLInputElement) or "other" (any other element with a name)
ControlDef(c) ==
  CASE c = "c1" -> [name |-> "season", kind |-> "select",
                    options |-> <<sAll, sSpring, sSummer>>]
    [] c = "c2" -> [name |-> "tag", kind |-> "text", options |-> << >>]
    [] c = "c3" -> [name |-> "season", kind |-> "select",
                    options |-> <<sSpring, sSummer>>]
    [] c = "c4" -> [name |-> "season", kind |-> "select", options |-> << >>]
    [] c = "c5" -> [name |-> "tag", kind |-> "checkbox", options |-> << >>]
    [] c = "c6" -> [name |-> "season", kind |-> "radio", options |-> << >>]
    [] c = "c7" -> [name |-> "season", kind |-> "radio", options |-> << >>]
    [] c = "c8" -> [name |-> "tag", kind |-> "other", options |-> << >>]
    [] c = "c9" -> [name |-> "", kind |-> "select", options |-> <<sAll, sSpring>>]

\* the value attribute of a checkbox or radio button: its value whether it
\* is checked or not
ToggleValue(c) ==
  CASE c = "c5" -> sForest
    [] c = "c6" -> sSpring
    [] c = "c7" -> sSummer
    [] OTHER -> <<"o", "n">>

\* what e.target.value can be after the user acted on a control
ControlInputs(c) ==
  CASE ControlDef(c).kind = "select" ->
         {ControlDef(c).options[i] : i \in DOMAIN ControlDef(c).options}
    [] ControlDef(c).kind \in {"checkbox", "radio"} -> {ToggleValue(c)}
    [] ControlDef(c).kind = "text" -> {sEmpty, sForest, sMeadow}
    [] OTHER -> {}

\* the control's value before any interaction
ControlInitialValue(c) ==
  CASE ControlDef(c).kind = "select" ->
         IF ControlDef(c).options = << >> THEN sEmpty ELSE ControlDef(c).options[1]
    [] ControlDef(c).kind \in {"checkbox", "radio"} -> ToggleValue(c)
    [] ControlDef(c).kind = "text" -> sEmpty
    [] OTHER -> Undefined

\* the controls of page P as loaded
InitialControls(P) ==
  [c \in P |->
    [value |-> ControlInitialValue(c), checked |-> FALSE,
     hidden |-> TRUE, describedby |-> {}]]

\* The controls after the user acted on control c and left it with value v:
\* a checkbox flips, a radio button becomes the checked one of its group.
UserActs(controls, c, v) ==
  [x \in DOMAIN controls |->
    IF x = c
    THEN [controls[x] EXCEPT
           !.value = v,
           !.checked = CASE ControlDef(c).kind = "checkbox" -> ~@
                         [] ControlDef(c).kind = "radio" -> TRUE
                         [] OTHER -> @]
    ELSE IF ControlDef(c).kind = "radio" /\ ControlDef(x).kind = "radio"
            /\ ControlDef(x).name = ControlDef(c).name
         THEN [controls[x] EXCEPT !.checked = FALSE]
         ELSE controls[x]]

\* the elements among s that are in set S, in the order of s
RECURSIVE Restrict(_, _)
Restrict(s, S) ==
  IF s = << >> THEN << >>
  ELSE IF Head(s) \in S THEN << Head(s) >> \o Restrict(Tail(s), S)
  ELSE Restrict(Tail(s), S)

Range(s) == {s[i] : i \in DOMAIN s}


\* ------------------------------------------------------------------------
\* State
\* ------------------------------------------------------------------------

VARIABLES
  \* the page
  doc,                \* the elements that match the elements selector under the root
  hidden,             \* element.hidden of every content element
  viewTransitionName, \* element.style.viewTransitionName: 0 unset, n for "<prefix>-item-<n>"
  ctl,                \* per control: value, checked, hidden, the ids in aria-describedby
  noResults,          \* the no-results element: hidden, live (role and aria-live set)
  status,             \* the status element: textContent, live
  hasViewTransition,  \* document.startViewTransition is available
  baseStylesInjected, \* GenericElementFilter._baseStylesInjected
  \* the engine instance
  engine,             \* "none", or "ready" once the constructor has attached the listeners
  ownerRef,           \* the constructor returned: the owner holds the instance
  cfg,                \* the configuration stored by the constructor
  elements,           \* this.elements
  filters,            \* this.filters
  currentFilters,     \* this.currentFilters
  noResultsMessage,   \* this.noResultsMessage: "null" or "noResults"
  statusElement,      \* this.statusElement: "null" or "status"
  \* execution
  pc,                 \* where the running operation is; "idle" when none runs
  op,                 \* the operation that runs
  locals,             \* hasVisibleElements, visibleCount, totalCount of the running pass
  hookArg,            \* the object handed to the hook that runs or ran last in this pass
  error,              \* the error that propagates when pc = "threw"
  pending,            \* runFilter callbacks handed to startViewTransition, not yet run
  passStart,          \* the page and engine state when the running pass was entered
  trace,              \* the steps of the running pass, in order
  \* inputs and result of the matching predicate on its own
  mIn, mOut,
  \* binding from markup
  marker,             \* container.__genericElementFilter of every container of the page
  instances,          \* the engines bindAll constructed, in order of construction
  listeners           \* the change listeners attached by those engines, in order

pageVars == <<doc, hidden, viewTransitionName, ctl, noResults, status,
              hasViewTransition, baseStylesInjected>>
engineVars == <<engine, ownerRef, cfg, elements, filters, currentFilters,
                noResultsMessage, statusElement>>
runVars == <<pc, op, locals, hookArg, error, pending, passStart, trace>>
matchVars == <<mIn, mOut>>
bindVars == <<marker, instances, listeners>>
vars == <<pageVars, engineVars, runVars, matchVars, bindVars>>

NoCfg == [elementsSelector |-> Undefined]
NoLocals == [hasVisibleElements |-> FALSE, visibleCount |-> 0, totalCount |-> 0]
NoArg == [hook |-> "none"]
NoOp == [name |-> "none", arg |-> Undefined]
NoPass == [entered |-> FALSE]
NoMatch == [d |-> Undefined, v |-> Undefined, mode |-> "none", done |-> FALSE]

\* container.__genericElementFilter: not set, set by the owner to an engine
\* of its own, or (by bindAll) the n-th engine bindAll constructed
NoMarker == [by |-> "none"]
OwnerMarker == [by |-> "owner"]
BoundMarker(n) == [by |-> "bindAll", instance |-> n]

\* a page without filter containers
NoContainers == [k \in {} |-> NoMarker]

\* deferred runFilter callbacks the model lets accumulate
MaxPending == 2

\* The page as loaded, before any engine is constructed.
InitEngine ==
  /\ doc = Elems
  /\ hidden = [e \in Elems |-> FALSE]
  /\ viewTransitionName = [e \in Elems |-> 0]
  /\ noResults = [hidden |-> TRUE, live |-> FALSE]
  /\ status = [textContent |-> sEmpty, live |-> FALSE]
  /\ baseStylesInjected = FALSE
  /\ engine = "none"
  /\ ownerRef = FALSE
  /\ cfg = NoCfg
  /\ elements = << >>
  /\ filters = << >>
  /\ currentFilters = EmptyObject
  /\ noResultsMessage = "null"
  /\ statusElement = "null"
  /\ pc = "idle"
  /\ op = NoOp
  /\ locals = NoLocals
  /\ hookArg = NoArg
  /\ error = "none"
  /\ pending = 0
  /\ passStart = NoPass
  /\ trace = << >>
  /\ instances = << >>
  /\ listeners = << >>

Init ==
  /\ InitEngine
  /\ ctl = InitialControls(MainPage)
  /\ marker = NoContainers
  /\ hasViewTransition \in BOOLEAN
  /\ mIn = NoMatch
  /\ mOut = FALSE

\* ------------------------------------------------------------------------
\* The matching predicate and the pieces of a pass
\* ------------------------------------------------------------------------

\* the comparison of a declared value with a filter value, per match mode
CompareValues(matchMode, elementValue, filterValue) ==
  IF matchMode = "contains"
  THEN ContainsMatch(elementValue, filterValue)
  ELSE elementValue = filterValue

EntryMatches_NoUndefinedCheck(c, element, filterName, filterValue) ==
  IF filterValue = c.allValue THEN TRUE
  ELSE CompareValues(c.matchMode, DatasetGet(element, filterName), filterValue)

\* the callback of Object.entries(this.currentFilters).every(...), for one
\* [filterName, filterValue] entry and one element
EntryMatches(c, element, filterName, filterValue) ==
  IF filterValue = c.allValue THEN TRUE
  ELSE LET elementValue == DatasetGet(element, filterName) IN
    IF elementValue = Undefined THEN TRUE
    ELSE CompareValues(c.matchMode, elementValue, filterValue)

MatchesAllFilters_Some(c, cf, element) ==
  \E filterName \in DOMAIN cf : EntryMatches(c, element, filterName, cf[filterName])

\* matchesAllFilters: every entry of the filter state lets the element through
MatchesAllFilters(c, cf, element) ==
  \A filterName \in DOMAIN cf : EntryMatches(c, element, filterName, cf[filterName])

\* this.elements.forEach(...): sets hidden on each element in turn and
\* accumulates hasVisibleElements and visibleCount
RECURSIVE ForEachElement_CountsAll(_, _, _, _)
ForEachElement_CountsAll(els, c, cf, acc) ==
  IF els = << >> THEN acc
  ELSE LET element == Head(els) IN
    IF MatchesAllFilters(c, cf, element)
    THEN ForEachElement_CountsAll(Tail(els), c, cf,
           [hidden |-> [acc.hidden EXCEPT ![element] = FALSE],
            hasVisibleElements |-> TRUE,
            visibleCount |-> acc.visibleCount + 1])
    ELSE ForEachElement_CountsAll(Tail(els), c, cf,
           [hidden |-> [acc.hidden EXCEPT ![element] = TRUE],
            hasVisibleElements |-> acc.hasVisibleElements,
            visibleCount |-> acc.visibleCount + 1])

RECURSIVE ForEachElement_Toggles(_, _, _, _)
ForEachElement_Toggles(els, c, cf, acc) ==
  IF els = << >> THEN acc
  ELSE LET element == Head(els) IN
    IF MatchesAllFilters(c, cf, element)
    THEN ForEachElement_Toggles(Tail(els), c, cf,
           [hidden |-> [acc.hidden EXCEPT ![element] = FALSE],
            hasVisibleElements |-> TRUE,
            visibleCount |-> acc.visibleCount + 1])
    ELSE ForEachElement_Toggles(Tail(els), c, cf,
           [acc EXCEPT !.hidden = [acc.hidden EXCEPT ![element] = ~@]])

RECURSIVE ForEachElement(_, _, _, _)
ForEachElement(els, c, cf, acc) ==
  IF els = << >> THEN acc
  ELSE LET element == Head(els) IN
    IF MatchesAllFilters(c, cf, element)
    THEN ForEachElement(Tail(els), c, cf,
           [hidden |-> [acc.hidden EXCEPT ![element] = FALSE],
            hasVisibleElements |-> TRUE,
            visibleCount |-> acc.visibleCount + 1])
    ELSE ForEachElement(Tail(els), c, cf,
           [acc EXCEPT !.hidden = [acc.hidden EXCEPT ![element] = TRUE]])

\* a status formatter supplied by the owner: (count) => `${count} hits`
CustomStatusFormatter(count) == NumberToString(count) \o <<" ","h","i","t","s">>

StatusFormatter_AlwaysDefault(c, count) == DefaultStatusFormatter(count)

\* this.statusFormatter(visibleCount)
StatusFormatter(c, count) ==
  IF c.statusFormatter = "default"
  THEN DefaultStatusFormatter(count)
  ELSE CustomStatusFormatter(count)

SpreadCopy_Live(obj) == [ref |-> "own", val |-> obj]

\* { ...this.currentFilters }: a fresh object with the same entries
SpreadCopy(obj) == [ref |-> "fresh", val |-> obj]

SliceCopy_Live(arr) == [ref |-> "own", val |-> arr]

\* this.elements.slice(): a fresh array with the same entries
SliceCopy(arr) == [ref |-> "fresh", val |-> arr]

\* the argument object of onBeforeFilter
BeforeArg(cf, els) ==
  [hook |-> "before", move |-> "running",
   currentFilters |-> SpreadCopy(cf), elements |-> SliceCopy(els)]

\* the argument object of onAfterFilter
AfterArg(cf, els, l) ==
  [hook |-> "after", move |-> "running",
   currentFilters |-> SpreadCopy(cf), elements |-> SliceCopy(els),
   visibleCount |-> l.visibleCount, totalCount |-> l.totalCount]

\* filterElements up to the loop: the locals, then the before hook if any
EnterPass(c, cf, els) ==
  /\ locals' = [hasVisibleElements |-> FALSE, visibleCount |-> 0,
                totalCount |-> Len(els)]
  /\ passStart' = [entered |-> TRUE, hidden |-> hidden,
                   noResultsHidden |-> noResults.hidden,
                   statusText |-> status.textContent,
                   currentFilters |-> cf, elements |-> els]
  /\ error' = "none"
  /\ IF c.onBeforeFilter # Undefined
     THEN /\ pc' = "inBefore"
          /\ hookArg' = BeforeArg(cf, els)
          /\ trace' = << "before" >>
     ELSE /\ pc' = "loop"
          /\ hookArg' = NoArg
          /\ trace' = << >>

\* What a hook does with the objects it was handed.
HookMoves == {"none", "overwrite", "remove", "add", "throw"}

Reverse(s) == [i \in DOMAIN s |-> s[Len(s) + 1 - i]]

HookOnFilters(move, obj) ==
  CASE move = "overwrite" -> [k \in DOMAIN obj |-> sFore]
    [] move = "remove" -> EmptyObject
    [] move = "add" -> Put(obj, "extra", sFore)
    [] OTHER -> obj

HookOnElements(move, arr) ==
  CASE move = "overwrite" -> Reverse(arr)
    [] move = "remove" -> IF arr = << >> THEN arr ELSE SubSeq(arr, 1, Len(arr) - 1)
    [] move = "add" -> Append(arr, DocOrder[1])
    [] OTHER -> arr

HookOutcome_Caught(move) == "returned"

\* How a hook call ends for filterElements, which calls it outside any try:
\* the hook returns, or its error leaves filterElements.
HookOutcome(move) == IF move = "throw" THEN "threw" ELSE "returned"

\* The body of a hook: it works on the objects its argument refers to.
RunHook(move) ==
  /\ hookArg' = [hookArg EXCEPT
       !.move = move,
       !.currentFilters.val = HookOnFilters(move, @),
       !.elements.val = HookOnElements(move, @)]
  /\ currentFilters' =
       IF hookArg.currentFilters.ref = "own"
       THEN HookOnFilters(move, currentFilters) ELSE currentFilters
  /\ elements' =
       IF hookArg.elements.ref = "own"
       THEN HookOnElements(move, elements) ELSE elements

\* ------------------------------------------------------------------------
\* Construction
\* ------------------------------------------------------------------------

sCard == <<".","c","a","r","d">>
sBlank == <<" ">>
sStatusSelector == <<".","s","t","a","t","u","s">>
sNoResultsSelector == <<".","n","o","-","r","e","s","u","l","t","s","-","m","e","s","s","a","g","e">>
sNoSuchSelector == <<".","n","o","n","e">>

\* this.root.querySelector(selector) for the auxiliary targets: the page has
\* one element matching ".no-results-message" and one matching ".status"
QuerySelector(selector) ==
  CASE selector = sNoResultsSelector -> "noResults"
    [] selector = sStatusSelector -> "status"
    [] OTHER -> "null"

\* a function value given as an option
Function == <<"function">>

\* the first argument of the constructor
Selectors == {Undefined, sEmpty, sBlank, sCard}

\* one options object of the constructor; Undefined is an option left out
Options(statusSelector, statusFormatter, noResultsSelector, matchMode, onBeforeFilter, onAfterFilter) ==
  [statusSelector |-> statusSelector, statusFormatter |-> statusFormatter,
   noResultsSelector |-> noResultsSelector, matchMode |-> matchMode,
   allValue |-> Undefined,
   onBeforeFilter |-> onBeforeFilter, onAfterFilter |-> onAfterFilter]

\* The options objects the engine is constructed with: every pair of choices
\* for two different options occurs in one of them.
OptionSets ==
  { Options(Undefined, Undefined, Undefined, Undefined, Undefined, Undefined),
    Options(Undefined, Function, sNoSuchSelector, <<"contains">>, Function, Function),
    Options(sStatusSelector, Undefined, Undefined, <<"contains">>, Undefined, Function),
    Options(sStatusSelector, Undefined, sNoSuchSelector, <<"equals">>, Function, Undefined),
    Options(sStatusSelector, Function, Undefined, Undefined, Function, Function),
    Options(sStatusSelector, Function, sNoSuchSelector, <<"contains">>, Undefined, Undefined),
    Options(sNoSuchSelector, Undefined, Undefined, <<"contains">>, Function, Undefined),
    Options(sNoSuchSelector, Function, sNoSuchSelector, Undefined, Undefined, Function) }

\* !elementsSelector
SelectorMissing(elementsSelector) ==
  elementsSelector = Undefined \/ elementsSelector = sEmpty

\* querySelectorAll(elementsSelector) throws a SyntaxError on a selector that
\* is no selector; of the selectors here, the blank one
SelectorParses(elementsSelector) == Trim(elementsSelector) # << >>

ConstructorPath_StylesFirst(elementsSelector) ==
  IF SelectorMissing(elementsSelector)
  THEN [error |-> "required", ensureBaseStyles |-> TRUE]
  ELSE IF ~SelectorParses(elementsSelector)
       THEN [error |-> "syntax", ensureBaseStyles |-> TRUE]
       ELSE [error |-> "none", ensureBaseStyles |-> TRUE]

\* How far the constructor gets: the error it throws, if any, and whether
\* _ensureBaseStyles ran before.
ConstructorPath(elementsSelector) ==
  IF SelectorMissing(elementsSelector)
  THEN [error |-> "required", ensureBaseStyles |-> FALSE]
  ELSE IF ~SelectorParses(elementsSelector)
       THEN [error |-> "syntax", ensureBaseStyles |-> TRUE]
       ELSE [error |-> "none", ensureBaseStyles |-> TRUE]

\* the configuration the constructor stores
StoreConfiguration(elementsSelector, options) ==
  [elementsSelector |-> elementsSelector,
   noResultsSelector |->
     IF options.noResultsSelector = Undefined
     THEN sNoResultsSelector ELSE options.noResultsSelector,
   statusSelector |-> options.statusSelector,
   allValue |-> IF options.allValue = Undefined THEN sAll ELSE options.allValue,
   statusFormatter |->
     IF options.statusFormatter = Function THEN "custom" ELSE "default",
   matchMode |-> IF options.matchMode = <<"contains">> THEN "contains" ELSE "equals",
   onBeforeFilter |-> options.onBeforeFilter,
   onAfterFilter |-> options.onAfterFilter]

\* element.style.viewTransitionName of each tracked element: its place in
\* the list (the elements of the page have no id)
RECURSIVE SetViewTransitionNames(_, _, _)
SetViewTransitionNames(els, index, names) ==
  IF els = << >> THEN names
  ELSE SetViewTransitionNames(Tail(els), index + 1,
                              [names EXCEPT ![Head(els)] = index + 1])

InitializeElements_KeepsOld(c) ==
  [elements |->
     elements \o SelectSeq(Restrict(DocOrder, doc), LAMBDA e : e \notin Range(elements)),
   noResultsMessage |-> QuerySelector(c.noResultsSelector),
   statusElement |->
     IF c.statusSelector # Undefined THEN QuerySelector(c.statusSelector) ELSE "null"]

InitializeElements_AlwaysFound(c) ==
  [elements |-> Restrict(DocOrder, doc),
   noResultsMessage |-> "noResults",
   statusElement |-> IF c.statusSelector # Undefined THEN "status" ELSE "null"]

\* _initializeElements: the tracked elements and the auxiliary targets
InitializeElements(c) ==
  [elements |-> Restrict(DocOrder, doc),
   noResultsMessage |-> QuerySelector(c.noResultsSelector),
   statusElement |->
     IF c.statusSelector # Undefined THEN QuerySelector(c.statusSelector) ELSE "null"]

\* filter.value ?? this.allValue
ValueOrAll(value, allValue) == IF value = Undefined THEN allValue ELSE value

\* _initializeFilters: the forEach that registers each control's value
RECURSIVE RegisterFilters(_, _, _)
RegisterFilters(fs, c, cf) ==
  IF fs = << >> THEN cf
  ELSE RegisterFilters(Tail(fs), c,
         Put(cf, ControlDef(Head(fs)).name, ValueOrAll(ctl[Head(fs)].value, c.allValue)))

Construct(elementsSelector, options) ==
  /\ pc = "idle"
  /\ engine = "none"
  /\ op' = [name |-> "construct", arg |-> elementsSelector]
  /\ LET path == ConstructorPath(elementsSelector) IN
     /\ baseStylesInjected' = (baseStylesInjected \/ path.ensureBaseStyles)
     /\ IF path.error # "none"
        THEN /\ pc' = "threw"
             /\ error' = path.error
             /\ UNCHANGED <<doc, hidden, viewTransitionName, ctl, noResults, status,
                            hasViewTransition, engineVars, locals, hookArg, pending,
                            passStart, trace, matchVars, bindVars>>
        ELSE LET c == StoreConfiguration(elementsSelector, options)
                 found == InitializeElements(c)
                 fs == Restrict(ControlOrder, DOMAIN ctl)
                 cf == RegisterFilters(fs, c, EmptyObject)
                 link == fs # << >> /\ found.statusElement # "null"
             IN
             /\ cfg' = c
             /\ elements' = found.elements
             /\ viewTransitionName' =
                  SetViewTransitionNames(found.elements, 0, viewTransitionName)
             /\ noResultsMessage' = found.noResultsMessage
             /\ statusElement' = found.statusElement
             /\ filters' = fs
             /\ currentFilters' = cf
             /\ engine' = "ready"
             \* _initializeAria, enableFiltering
             /\ noResults' = [noResults EXCEPT
                  !.live = @ \/ found.noResultsMessage # "null"]
             /\ status' = [status EXCEPT !.live = @ \/ found.statusElement # "null"]
             /\ ctl' = [x \in DOMAIN ctl |->
                  IF x \in Range(fs)
                  THEN [ctl[x] EXCEPT
                         !.hidden = FALSE,
                         !.describedby = IF link THEN @ \cup {"status"} ELSE @]
                  ELSE ctl[x]]
             /\ EnterPass(c, cf, found.elements)
             /\ UNCHANGED <<doc, hidden, hasViewTransition, ownerRef, pending, matchVars, bindVars>>

\* ------------------------------------------------------------------------
\* Operations on a constructed engine
\* ------------------------------------------------------------------------

\* The user changes a control before any engine listens: only the control
\* changes.
UserInput(c, v) ==
  /\ pc = "idle"
  /\ engine = "none"
  /\ v \in ControlInputs(c)
  /\ ControlDef(c).kind = "radio" => ~ctl[c].checked
  /\ ctl' = UserActs(ctl, c, v)
  /\ UNCHANGED <<doc, hidden, viewTransitionName, noResults, status,
                 hasViewTransition, baseStylesInjected, engineVars, runVars, matchVars, bindVars>>

Change_Validated(c, v) ==
  /\ pc = "idle"
  /\ engine = "ready"
  /\ c \in Range(filters)
  /\ v \in ControlInputs(c)
  /\ ControlDef(c).kind = "radio" => ~ctl[c].checked
  /\ ctl' = UserActs(ctl, c, v)
  /\ LET filterType == ControlDef(c).name
         known == v = cfg.allValue
                  \/ \E e \in Range(elements) : DatasetGet(e, filterType) = v
         cf == IF known THEN Put(currentFilters, filterType, v) ELSE currentFilters
     IN
     /\ currentFilters' = cf
     /\ IF ~hasViewTransition
        THEN /\ op' = [name |-> "change", arg |-> c]
             /\ EnterPass(cfg, cf, elements)
             /\ UNCHANGED pending
        ELSE /\ pending < MaxPending
             /\ pending' = pending + 1
             /\ UNCHANGED <<pc, op, locals, hookArg, error, passStart, trace>>
  /\ UNCHANGED <<doc, hidden, viewTransitionName, noResults, status, hasViewTransition,
                 baseStylesInjected, engine, ownerRef, cfg, elements, filters,
                 noResultsMessage, statusElement, matchVars, bindVars>>

\* A change event on control c, whose value is now v: updateFilter(e).
Change(c, v) ==
  /\ pc = "idle"
  /\ engine = "ready"
  /\ c \in Range(filters)
  /\ v \in ControlInputs(c)
  /\ ControlDef(c).kind = "radio" => ~ctl[c].checked
  /\ ctl' = UserActs(ctl, c, v)
  /\ LET filterType == ControlDef(c).name
         cf == Put(currentFilters, filterType, v)
     IN
     /\ currentFilters' = cf
     /\ IF ~hasViewTransition
        THEN /\ op' = [name |-> "change", arg |-> c]
             /\ EnterPass(cfg, cf, elements)
             /\ UNCHANGED pending
        ELSE /\ pending < MaxPending
             /\ pending' = pending + 1
             /\ UNCHANGED <<pc, op, locals, hookArg, error, passStart, trace>>
  /\ UNCHANGED <<doc, hidden, viewTransitionName, noResults, status, hasViewTransition,
                 baseStylesInjected, engine, ownerRef, cfg, elements, filters,
                 noResultsMessage, statusElement, matchVars, bindVars>>

RunDeferred_Interrupting ==
  /\ pc \in {"idle", "noResults"}
  /\ pending > 0
  /\ pending' = pending - 1
  /\ op' = [name |-> "deferred", arg |-> Undefined]
  /\ EnterPass(cfg, currentFilters, elements)
  /\ UNCHANGED <<pageVars, engineVars, matchVars, bindVars>>

RunDeferred_Coalesced ==
  /\ pc = "idle"
  /\ pending > 0
  /\ IF pending > 1
     THEN /\ pending' = 0
          /\ UNCHANGED <<pc, op, locals, hookArg, error, passStart, trace>>
     ELSE /\ pending' = pending - 1
          /\ op' = [name |-> "deferred", arg |-> Undefined]
          /\ EnterPass(cfg, currentFilters, elements)
  /\ UNCHANGED <<pageVars, engineVars, matchVars, bindVars>>

RunDeferred_Dropped ==
  /\ pc = "idle"
  /\ pending > 0
  /\ pending' = pending - 1
  /\ UNCHANGED <<pageVars, engineVars, pc, op, locals, hookArg, error, passStart,
                 trace, matchVars, bindVars>>

\* The transition facility calls a runFilter callback it was handed.
RunDeferred ==
  /\ pc = "idle"
  /\ pending > 0
  /\ pending' = pending - 1
  /\ op' = [name |-> "deferred", arg |-> Undefined]
  /\ EnterPass(cfg, currentFilters, elements)
  /\ UNCHANGED <<pageVars, engineVars, matchVars, bindVars>>

\* refreshElements()
RefreshElements ==
  /\ pc = "idle"
  /\ engine = "ready"
  /\ ownerRef
  /\ op' = [name |-> "refresh", arg |-> Undefined]
  /\ LET found == InitializeElements(cfg) IN
     /\ elements' = found.elements
     /\ viewTransitionName' =
          SetViewTransitionNames(found.elements, 0, viewTransitionName)
     /\ noResultsMessage' = found.noResultsMessage
     /\ statusElement' = found.statusElement
     /\ EnterPass(cfg, currentFilters, found.elements)
  /\ UNCHANGED <<doc, hidden, ctl, noResults, status, hasViewTransition,
                 baseStylesInjected, engine, ownerRef, cfg, filters, currentFilters,
                 pending, matchVars, bindVars>>

ResetControl_StateOnly(c, allValue, control) ==
  [control |-> control,
   stored |-> IF ControlDef(c).kind = "select"
              THEN ValueOrAll(control.value, allValue) ELSE allValue]

\* reset(), one control: the control afterwards and the value stored for it
ResetControl(c, allValue, control) ==
  LET def == ControlDef(c)
      options == def.options
      hasAllOption == \E i \in DOMAIN options : options[i] = allValue
  IN
  CASE def.kind = "select" ->
         LET after ==
               IF hasAllOption THEN [control EXCEPT !.value = allValue]
               ELSE IF Len(options) > 0 THEN [control EXCEPT !.value = options[1]]
               ELSE control
         IN [control |-> after, stored |-> ValueOrAll(after.value, allValue)]
    [] def.kind \in {"checkbox", "radio"} ->
         [control |-> [control EXCEPT !.checked = FALSE], stored |-> allValue]
    [] def.kind = "text" ->
         [control |-> [control EXCEPT !.value = sEmpty], stored |-> allValue]
    [] OTHER ->
         [control |-> control, stored |-> allValue]

\* reset(): the forEach over this.filters
RECURSIVE ResetFilters(_, _, _)
ResetFilters(fs, allValue, acc) ==
  IF fs = << >> THEN acc
  ELSE LET c == Head(fs)
           name == ControlDef(c).name
       IN
       IF name = ""
       THEN ResetFilters(Tail(fs), allValue, acc)
       ELSE LET r == ResetControl(c, allValue, acc.ctl[c]) IN
            ResetFilters(Tail(fs), allValue,
              [ctl |-> [acc.ctl EXCEPT ![c] = r.control],
               currentFilters |-> Put(acc.currentFilters, name, r.stored)])

Reset_NoPass ==
  /\ pc = "idle"
  /\ engine = "ready"
  /\ ownerRef
  /\ LET r == ResetFilters(filters, cfg.allValue,
                           [ctl |-> ctl, currentFilters |-> currentFilters])
     IN
     /\ ctl' = r.ctl
     /\ currentFilters' = r.currentFilters
     /\ op' = [name |-> "reset", arg |-> Undefined]
     /\ pc' = "returned"
     /\ UNCHANGED <<locals, hookArg, error, pending, passStart, trace>>
  /\ UNCHANGED <<doc, hidden, viewTransitionName, noResults, status, hasViewTransition,
                 baseStylesInjected, engine, ownerRef, cfg, elements, filters,
                 noResultsMessage, statusElement, matchVars, bindVars>>

\* reset()
Reset ==
  /\ pc = "idle"
  /\ engine = "ready"
  /\ ownerRef
  /\ IF filters = << >>
     THEN /\ op' = [name |-> "reset", arg |-> Undefined]
          /\ pc' = "returned"
          /\ UNCHANGED <<ctl, currentFilters, locals, hookArg, error, pending,
                         passStart, trace>>
     ELSE LET r == ResetFilters(filters, cfg.allValue,
                                [ctl |-> ctl, currentFilters |-> currentFilters])
          IN
          /\ ctl' = r.ctl
          /\ currentFilters' = r.currentFilters
          /\ op' = [name |-> "reset", arg |-> Undefined]
          /\ EnterPass(cfg, r.currentFilters, elements)
          /\ UNCHANGED pending
  /\ UNCHANGED <<doc, hidden, viewTransitionName, noResults, status, hasViewTransition,
                 baseStylesInjected, engine, ownerRef, cfg, elements, filters,
                 noResultsMessage, statusElement, matchVars, bindVars>>

\* ------------------------------------------------------------------------
\* The steps of a pass (filterElements)
\* ------------------------------------------------------------------------

BeforeHook_Swallowed(move) ==
  /\ pc = "inBefore"
  /\ RunHook(move)
  /\ pc' = "loop"
  /\ UNCHANGED <<pageVars, engine, ownerRef, cfg, filters, noResultsMessage,
                 statusElement, op, locals, error, pending, passStart, trace, matchVars, bindVars>>

\* onBeforeFilter runs.
BeforeHook(move) ==
  /\ pc = "inBefore"
  /\ RunHook(move)
  /\ IF HookOutcome(move) = "threw"
     THEN pc' = "threw" /\ error' = "before"
     ELSE pc' = "loop" /\ UNCHANGED error
  /\ UNCHANGED <<pageVars, engine, ownerRef, cfg, filters, noResultsMessage,
                 statusElement, op, locals, pending, passStart, trace, matchVars, bindVars>>

Loop_EveryElement ==
  /\ pc = "loop"
  /\ LET r == ForEachElement(DocOrder, cfg, currentFilters,
                [hidden |-> hidden,
                 hasVisibleElements |-> locals.hasVisibleElements,
                 visibleCount |-> locals.visibleCount])
     IN
     /\ hidden' = r.hidden
     /\ locals' = [locals EXCEPT !.hasVisibleElements = r.hasVisibleElements,
                                 !.visibleCount = r.visibleCount]
  /\ pc' = "noResults"
  /\ hookArg' = NoArg
  /\ trace' = Append(trace, "visibility")
  /\ UNCHANGED <<doc, viewTransitionName, ctl, noResults, status, hasViewTransition,
                 baseStylesInjected, engineVars, op, error, pending, passStart,
                 matchVars, bindVars>>

\* this.elements.forEach(...)
Loop ==
  /\ pc = "loop"
  /\ LET r == ForEachElement(elements, cfg, currentFilters,
                [hidden |-> hidden,
                 hasVisibleElements |-> locals.hasVisibleElements,
                 visibleCount |-> locals.visibleCount])
     IN
     /\ hidden' = r.hidden
     /\ locals' = [locals EXCEPT !.hasVisibleElements = r.hasVisibleElements,
                                 !.visibleCount = r.visibleCount]
  /\ pc' = "noResults"
  /\ hookArg' = NoArg
  /\ trace' = Append(trace, "visibility")
  /\ UNCHANGED <<doc, viewTransitionName, ctl, noResults, status, hasViewTransition,
                 baseStylesInjected, engineVars, op, error, pending, passStart,
                 matchVars, bindVars>>

NoResultsHidden_Inverted(l) == ~l.hasVisibleElements

\* the hidden flag the pass gives the no-results message
NoResultsHidden(l) == l.hasVisibleElements

\* if (this.noResultsMessage) this.noResultsMessage.hidden = hasVisibleElements
UpdateNoResults ==
  /\ pc = "noResults"
  /\ noResults' =
       IF noResultsMessage # "null"
       THEN [noResults EXCEPT !.hidden = NoResultsHidden(locals)]
       ELSE noResults
  /\ pc' = "status"
  /\ trace' = Append(trace, "noResults")
  /\ UNCHANGED <<doc, hidden, viewTransitionName, ctl, status, hasViewTransition,
                 baseStylesInjected, engineVars, op, locals, hookArg, error, pending,
                 passStart, matchVars, bindVars>>

UpdateStatus_HookFirst ==
  /\ pc = "status"
  /\ cfg.onAfterFilter # Undefined
  /\ pc' = "inAfter"
  /\ hookArg' = AfterArg(currentFilters, elements, locals)
  /\ trace' = trace \o << "after" >>
  /\ UNCHANGED <<pageVars, engineVars, op, locals, error, pending, passStart, matchVars, bindVars>>

\* if (this.statusElement) ... textContent = this.statusFormatter(visibleCount),
\* then the after hook, if any, is called
UpdateStatus ==
  /\ pc = "status"
  /\ status' =
       IF statusElement # "null"
       THEN [status EXCEPT !.textContent = StatusFormatter(cfg, locals.visibleCount)]
       ELSE status
  /\ IF cfg.onAfterFilter # Undefined
     THEN /\ pc' = "inAfter"
          /\ hookArg' = AfterArg(currentFilters, elements, locals)
          /\ trace' = trace \o << "status", "after" >>
     ELSE /\ pc' = "done"
          /\ hookArg' = NoArg
          /\ trace' = Append(trace, "status")
  /\ UNCHANGED <<doc, hidden, viewTransitionName, ctl, noResults, hasViewTransition,
                 baseStylesInjected, engineVars, op, locals, error, pending,
                 passStart, matchVars, bindVars>>

\* onAfterFilter runs.
AfterHook(move) ==
  /\ pc = "inAfter"
  /\ RunHook(move)
  /\ IF HookOutcome(move) = "threw"
     THEN pc' = "threw" /\ error' = "after"
     ELSE pc' = "done" /\ UNCHANGED error
  /\ UNCHANGED <<pageVars, engine, ownerRef, cfg, filters, noResultsMessage,
                 statusElement, op, locals, pending, passStart, trace, matchVars, bindVars>>

\* The pass is over, or the operation returned without one, and the
\* operation returns to its caller.
Return ==
  /\ pc \in {"done", "returned"}
  /\ pc' = "idle"
  /\ ownerRef' = (ownerRef \/ op.name = "construct")
  /\ op' = NoOp
  /\ locals' = NoLocals
  /\ hookArg' = NoArg
  /\ passStart' = NoPass
  /\ trace' = << >>
  /\ UNCHANGED <<pageVars, engine, cfg, elements, filters, currentFilters,
                 noResultsMessage, statusElement, error, pending, matchVars, bindVars>>

\* Nothing in the engine catches: the error leaves the operation.
Propagate ==
  /\ pc = "threw"
  /\ pc' = "idle"
  /\ op' = NoOp
  /\ error' = "none"
  /\ locals' = NoLocals
  /\ hookArg' = NoArg
  /\ passStart' = NoPass
  /\ trace' = << >>
  /\ UNCHANGED <<pageVars, engineVars, pending, matchVars, bindVars>>

\* filterElements as a whole, with hooks that return, on a page that shows
\* h, nr and st: what it leaves on the page and the counts it computes
FilterElements(h, nr, st) ==
  LET r == ForEachElement(elements, cfg, currentFilters,
             [hidden |-> h, hasVisibleElements |-> FALSE, visibleCount |-> 0])
      l == [hasVisibleElements |-> r.hasVisibleElements,
            visibleCount |-> r.visibleCount, totalCount |-> Len(elements)]
  IN [hidden |-> r.hidden,
      noResultsHidden |-> IF noResultsMessage # "null" THEN NoResultsHidden(l) ELSE nr,
      statusText |->
        IF statusElement # "null" THEN StatusFormatter(cfg, l.visibleCount) ELSE st,
      visibleCount |-> l.visibleCount,
      totalCount |-> l.totalCount]

\* ------------------------------------------------------------------------
\* The page changes under the engine
\* ------------------------------------------------------------------------

\* The sets of content elements the page goes through: every element there,
\* the first one taken out, the container emptied.
DocStates == {Elems, Elems \ {"E1"}, {}}

\* Elements are added to the page.
DomAdd(S) ==
  /\ pc = "idle"
  /\ S # {}
  /\ S \cap doc = {}
  /\ doc \cup S \in DocStates
  /\ doc' = doc \cup S
  /\ UNCHANGED <<hidden, viewTransitionName, ctl, noResults, status,
                 hasViewTransition, baseStylesInjected, engineVars, runVars, matchVars, bindVars>>

\* Elements are removed from the page (or stop matching the selector).
DomRemove(S) ==
  /\ pc = "idle"
  /\ S # {}
  /\ S \subseteq doc
  /\ doc \ S \in DocStates
  /\ doc' = doc \ S
  /\ UNCHANGED <<hidden, viewTransitionName, ctl, noResults, status,
                 hasViewTransition, baseStylesInjected, engineVars, runVars, matchVars, bindVars>>

Next ==
  \/ \E elementsSelector \in Selectors, options \in OptionSets :
       Construct(elementsSelector, options)
  \/ \E c \in DOMAIN ctl : \E v \in ControlInputs(c) : UserInput(c, v)
  \/ \E c \in DOMAIN ctl : \E v \in ControlInputs(c) : Change(c, v)
  \/ RunDeferred
  \/ RefreshElements
  \/ Reset
  \/ \E move \in HookMoves : BeforeHook(move)
  \/ Loop
  \/ UpdateNoResults
  \/ UpdateStatus
  \/ \E move \in HookMoves : AfterHook(move)
  \/ Return
  \/ Propagate
  \/ \E S \in SUBSET Elems : DomAdd(S)
  \/ \E S \in SUBSET Elems : DomRemove(S)

Spec == Init /\ [][Next]_vars

\* ------------------------------------------------------------------------
\* The engine on each of the pages
\* ------------------------------------------------------------------------

\* the options the engine is constructed with on these pages
PageOptionSets ==
  { Options(Undefined, Undefined, Undefined, Undefined, Undefined, Undefined),
    Options(sStatusSelector, Undefined, Undefined, <<"contains">>, Function, Function) }

InitControls ==
  /\ InitEngine
  /\ \E P \in Pages : ctl = InitialControls(P)
  /\ marker = NoContainers
  /\ hasViewTransition \in BOOLEAN
  /\ mIn = NoMatch
  /\ mOut = FALSE

NextControls ==
  \/ \E options \in PageOptionSets : Construct(sCard, options)
  \/ \E c \in DOMAIN ctl : \E v \in ControlInputs(c) : UserInput(c, v)
  \/ \E c \in DOMAIN ctl : \E v \in ControlInputs(c) : Change(c, v)
  \/ RunDeferred
  \/ RefreshElements
  \/ Reset
  \/ \E move \in HookMoves : BeforeHook(move)
  \/ Loop
  \/ UpdateNoResults
  \/ UpdateStatus
  \/ \E move \in HookMoves : AfterHook(move)
  \/ Return
  \/ Propagate

SpecControls == InitControls /\ [][NextControls]_vars

\* Scheduling: JavaScript runs a call to completion, so every step of a
\* running pass is taken and a hook that was called ends; the transition
\* facility calls every callback it was handed, however often other calls
\* come in between.
\* the running call takes its next step, whichever that is
RunToCompletion ==
  \/ \E move \in HookMoves : BeforeHook(move)
  \/ Loop
  \/ UpdateNoResults
  \/ UpdateStatus
  \/ \E move \in HookMoves : AfterHook(move)
  \/ Return
  \/ Propagate

Fairness == WF_vars(RunToCompletion) /\ SF_vars(RunDeferred)

\* the options of the engines whose scheduling is followed
SchedOptionSets ==
  { Options(Undefined, Undefined, Undefined, Undefined, Undefined, Undefined),
    Options(sStatusSelector, Undefined, Undefined, <<"equals">>, Function, Function) }

NextSched ==
  \/ \E options \in SchedOptionSets : Construct(sCard, options)
  \/ \E c \in DOMAIN ctl : \E v \in ControlInputs(c) : UserInput(c, v)
  \/ \E c \in DOMAIN ctl : \E v \in ControlInputs(c) : Change(c, v)
  \/ RunDeferred
  \/ RefreshElements
  \/ Reset
  \/ RunToCompletion

SpecSched == InitControls /\ [][NextSched]_vars /\ Fairness

\* ------------------------------------------------------------------------
\* Binding from markup: GenericElementFilter.bindAll
\* ------------------------------------------------------------------------

\* The filter containers a page can hold (the elements with a
\* data-filter-elements attribute), in document order. A page holds some of
\* them: the domain of marker.
ContainerOrder == <<"k1", "k2", "k3", "k4", "k5", "k6">>

\* scope: the nearest section, main or body around the container;
\* filterElements, filterStatus, filterNoResults, filterAllValue: its
\* data-filter-* attributes (Undefined: not declared); controls: the named
\* controls inside it. k1 and k2 lie side by side in one section; k3 lies in
\* the body outside every section; k4 declares an empty selector, k5 one
\* that is no selector.
ContainerDef(k) ==
  CASE k = "k1" -> [scope |-> "s1", filterElements |-> sCard,
                    filterStatus |-> sStatusSelector, filterNoResults |-> Undefined,
                    filterAllValue |-> Undefined, controls |-> {"c1"}]
    [] k = "k2" -> [scope |-> "s1", filterElements |-> sCard,
                    filterStatus |-> Undefined, filterNoResults |-> Undefined,
                    filterAllValue |-> sEmpty, controls |-> {"c2"}]
    [] k = "k3" -> [scope |-> "body", filterElements |-> sCard,
                    filterStatus |-> sEmpty, filterNoResults |-> sNoSuchSelector,
                    filterAllValue |-> sAll, controls |-> {}]
    [] k = "k4" -> [scope |-> "s2", filterElements |-> sEmpty,
                    filterStatus |-> Undefined, filterNoResults |-> Undefined,
                    filterAllValue |-> Undefined, controls |-> {}]
    [] k = "k5" -> [scope |-> "s2", filterElements |-> sBlank,
                    filterStatus |-> Undefined, filterNoResults |-> Undefined,
                    filterAllValue |-> Undefined, controls |-> {}]
    [] k = "k6" -> [scope |-> "s2", filterElements |-> sCard,
                    filterStatus |-> Undefined, filterNoResults |-> Undefined,
                    filterAllValue |-> Undefined, controls |-> {"c3"}]

\* the pages bindAll is called on
BindPages == {{"k1", "k2"}, {"k1", "k3", "k4", "k6"}, {"k2", "k5", "k6"}}

\* the named controls of a page with containers P
ControlsOf(P) == UNION {ContainerDef(k).controls : k \in P}

\* the section a content element lies in; the no-results message and the
\* status element lie in section s1
ElemScope(e) == IF e = "E3" THEN "s2" ELSE "s1"

\* what lies in scope is a descendant of root
InScope(scope, root) == root \in {"document", "body"} \/ scope = root

\* root.querySelectorAll("[data-filter-elements]")
ContainersUnder(root) ==
  Restrict(ContainerOrder, {k \in DOMAIN marker : InScope(ContainerDef(k).scope, root)})

\* this.root.querySelectorAll(elementsSelector)
ElementsUnder(root) ==
  Restrict(DocOrder, {e \in doc : InScope(ElemScope(e), root)})

\* this.root.querySelectorAll("[name]")
ControlsUnder(root) ==
  Restrict(ControlOrder,
    {c \in DOMAIN ctl :
       \E k \in DOMAIN marker :
         c \in ContainerDef(k).controls /\ InScope(ContainerDef(k).scope, root)})

\* this.root.querySelector(selector) for the auxiliary targets
QuerySelectorUnder(root, selector) ==
  IF InScope("s1", root) THEN QuerySelector(selector) ELSE "null"

\* value || fallback on a dataset entry
OrDefault(value, fallback) ==
  IF value = Undefined \/ value = sEmpty THEN fallback ELSE value

\* container.closest("section, main, body") || root
RootFor(k, root) == ContainerDef(k).scope

\* the options object bindAll hands to the constructor
BindOptions(k) ==
  LET ds == ContainerDef(k) IN
  [statusSelector |-> OrDefault(ds.filterStatus, Undefined),
   statusFormatter |-> Undefined,
   noResultsSelector |-> OrDefault(ds.filterNoResults, sNoResultsSelector),
   matchMode |-> Undefined,
   allValue |-> OrDefault(ds.filterAllValue, sAll),
   onBeforeFilter |-> Undefined, onAfterFilter |-> Undefined]

\* the part of the page that constructing and filtering write to
PageNow ==
  [hidden |-> hidden, viewTransitionName |-> viewTransitionName, ctl |-> ctl,
   noResults |-> noResults, status |-> status,
   baseStylesInjected |-> baseStylesInjected]

\* filterElements of one of the bound engines (they have no hooks)
InstancePass(inst, page) ==
  LET r == ForEachElement(inst.elements, inst.cfg, inst.currentFilters,
             [hidden |-> page.hidden, hasVisibleElements |-> FALSE, visibleCount |-> 0])
      l == [hasVisibleElements |-> r.hasVisibleElements,
            visibleCount |-> r.visibleCount, totalCount |-> Len(inst.elements)]
  IN [page EXCEPT
        !.hidden = r.hidden,
        !.noResults = IF inst.noResultsMessage # "null"
                      THEN [page.noResults EXCEPT !.hidden = NoResultsHidden(l)]
                      ELSE page.noResults,
        !.status = IF inst.statusElement # "null"
                   THEN [page.status EXCEPT
                          !.textContent = StatusFormatter(inst.cfg, l.visibleCount)]
                   ELSE page.status]

\* new GenericElementFilter(elementsSelector, {root, filtersSelector: "[name]",
\* ...}) for container k: the engine, its listeners and the page after the
\* constructor returned, or the error it threw
ConstructFor(k, root, page) ==
  LET elementsSelector == ContainerDef(k).filterElements
      path == ConstructorPath(elementsSelector)
  IN
  IF path.error # "none"
  THEN [error |-> path.error,
        page |-> [page EXCEPT !.baseStylesInjected = @ \/ path.ensureBaseStyles]]
  ELSE
    LET c == StoreConfiguration(elementsSelector, BindOptions(k))
        els == ElementsUnder(root)
        nrm == QuerySelectorUnder(root, c.noResultsSelector)
        se == IF c.statusSelector # Undefined
              THEN QuerySelectorUnder(root, c.statusSelector) ELSE "null"
        fs == ControlsUnder(root)
        link == fs # << >> /\ se # "null"
        inst == [container |-> k, root |-> root, cfg |-> c, elements |-> els,
                 filters |-> fs,
                 currentFilters |-> RegisterFilters(fs, c, EmptyObject),
                 noResultsMessage |-> nrm, statusElement |-> se]
        built ==
          [hidden |-> page.hidden,
           viewTransitionName |-> SetViewTransitionNames(els, 0, page.viewTransitionName),
           ctl |-> [x \in DOMAIN page.ctl |->
                     IF x \in Range(fs)
                     THEN [page.ctl[x] EXCEPT
                            !.hidden = FALSE,
                            !.describedby = IF link THEN @ \cup {"status"} ELSE @]
                     ELSE page.ctl[x]],
           noResults |-> [page.noResults EXCEPT !.live = @ \/ nrm # "null"],
           status |-> [page.status EXCEPT !.live = @ \/ se # "null"],
           baseStylesInjected |-> TRUE]
    IN [error |-> "none", instance |-> inst, page |-> InstancePass(inst, built)]

AlreadyBound_Never(markers, k) == FALSE

\* if (container.__genericElementFilter) return;
AlreadyBound(markers, k) == markers[k] # NoMarker

MarkBound_Forgets(markers, k, n) == markers

\* container.__genericElementFilter = <the n-th engine>
MarkBound(markers, k, n) == [markers EXCEPT ![k] = BoundMarker(n)]

\* the listeners one engine attaches: one per control it registers
ListenersOf(fs, n) == [i \in DOMAIN fs |-> [target |-> fs[i], instance |-> n]]

\* containers.forEach(...) of bindAll; an error thrown by a constructor ends
\* the forEach
RECURSIVE BindContainers(_, _, _)
BindContainers(ks, root, acc) ==
  IF ks = << >> \/ acc.error # "none" THEN acc
  ELSE LET container == Head(ks) IN
    IF AlreadyBound(acc.marker, container)
    THEN BindContainers(Tail(ks), root, acc)
    ELSE IF SelectorMissing(ContainerDef(container).filterElements)
    THEN BindContainers(Tail(ks), root, acc)
    ELSE LET r == ConstructFor(container, RootFor(container, root), acc.page)
             n == Len(acc.instances) + 1
         IN
         IF r.error # "none"
         THEN [acc EXCEPT !.error = r.error, !.page = r.page]
         ELSE BindContainers(Tail(ks), root,
                [marker |-> MarkBound(acc.marker, container, n),
                 instances |-> Append(acc.instances, r.instance),
                 listeners |-> acc.listeners \o ListenersOf(r.instance.filters, n),
                 page |-> r.page,
                 error |-> "none"])

\* GenericElementFilter.bindAll(root)
BindAll(root) ==
  /\ pc = "idle"
  /\ engine = "none"
  /\ LET r == BindContainers(ContainersUnder(root), root,
                [marker |-> marker, instances |-> instances, listeners |-> listeners,
                 page |-> PageNow, error |-> "none"])
     IN
     /\ marker' = r.marker
     /\ instances' = r.instances
     /\ listeners' = r.listeners
     /\ hidden' = r.page.hidden
     /\ viewTransitionName' = r.page.viewTransitionName
     /\ ctl' = r.page.ctl
     /\ noResults' = r.page.noResults
     /\ status' = r.page.status
     /\ baseStylesInjected' = r.page.baseStylesInjected
     /\ error' = r.error
     /\ pc' = IF r.error = "none" THEN "done" ELSE "threw"
  /\ op' = [name |-> "bindAll", arg |-> root]
  /\ UNCHANGED <<doc, hasViewTransition, engineVars, locals, hookArg, pending,
                 passStart, trace, matchVars>>

\* The owner binds container k by hand and sets the marker on it.
OwnerMarks(k) ==
  /\ pc = "idle"
  /\ engine = "none"
  /\ marker[k] = NoMarker
  /\ marker' = [marker EXCEPT ![k] = OwnerMarker]
  /\ UNCHANGED <<pageVars, engineVars, runVars, matchVars, instances, listeners>>

\* the listeners on control c run in the order they were attached:
\* updateFilter of each engine, without the transition facility
RECURSIVE DispatchChange(_, _, _, _)
DispatchChange(ls, c, v, acc) ==
  IF ls = << >> THEN acc
  ELSE IF Head(ls).target # c THEN DispatchChange(Tail(ls), c, v, acc)
  ELSE LET n == Head(ls).instance
           inst == [acc.instances[n] EXCEPT
                     !.currentFilters = Put(@, ControlDef(c).name, v)]
       IN DispatchChange(Tail(ls), c, v,
            [instances |-> [acc.instances EXCEPT ![n] = inst],
             page |-> InstancePass(inst, acc.page)])

\* A change event on control c of a page with bound engines.
BoundChange(c, v) ==
  /\ pc = "idle"
  /\ engine = "none"
  /\ ~hasViewTransition
  /\ v \in ControlInputs(c)
  /\ LET r == DispatchChange(listeners, c, v,
                [instances |-> instances,
                 page |-> [PageNow EXCEPT !.ctl = UserActs(ctl, c, v)]])
     IN
     /\ instances' = r.instances
     /\ hidden' = r.page.hidden
     /\ ctl' = r.page.ctl
     /\ noResults' = r.page.noResults
     /\ status' = r.page.status
  /\ UNCHANGED <<doc, viewTransitionName, hasViewTransition, baseStylesInjected,
                 engineVars, runVars, matchVars, marker, listeners>>

\* the roots bindAll is called with: the document and the first section
BindRoots == {"document", "s1"}

InitBind ==
  /\ InitEngine
  /\ \E P \in BindPages :
       /\ marker = [k \in P |-> NoMarker]
       /\ ctl = InitialControls(ControlsOf(P))
  /\ hasViewTransition = FALSE
  /\ mIn = NoMatch
  /\ mOut = FALSE

NextBind ==
  \/ \E k \in DOMAIN marker : OwnerMarks(k)
  \/ \E root \in BindRoots : BindAll(root)
  \/ \E c \in DOMAIN ctl : \E v \in ControlInputs(c) : BoundChange(c, v)
  \/ Return
  \/ Propagate

SpecBind == InitBind /\ [][NextBind]_vars

\* ------------------------------------------------------------------------
\* The comparison on its own, over all short declared and filter values
\* ------------------------------------------------------------------------

\* longest declared value, longest filter value
MaxLen == 4
MaxValueLen == 2

Alphabet == {"a", "b", " ", ","}

StringsUpTo(n) == UNION {[1..k -> Alphabet] : k \in 0..n}

DeclaredValues == StringsUpTo(MaxLen) \cup {sForestCommaMeadow, sForestSpaceMeadow}

FilterValues == StringsUpTo(MaxValueLen) \cup {sForest, sMeadow, sFore}

InitMatch ==
  /\ InitEngine
  /\ ctl = InitialControls(MainPage)
  /\ marker = NoContainers
  /\ hasViewTransition = FALSE
  /\ \E d \in DeclaredValues, v \in FilterValues, mode \in {"equals", "contains"} :
       mIn = [d |-> d, v |-> v, mode |-> mode, done |-> FALSE]
  /\ mOut = FALSE

Compare ==
  /\ ~mIn.done
  /\ mOut' = CompareValues(mIn.mode, mIn.d, mIn.v)
  /\ mIn' = [mIn EXCEPT !.done = TRUE]
  /\ UNCHANGED <<pageVars, engineVars, runVars, bindVars>>

NextMatch == Compare

SpecMatch == InitMatch /\ [][NextMatch]_vars

\* ------------------------------------------------------------------------
\* Properties
\* ------------------------------------------------------------------------

Whitespace == {" ", "\t"}

\* The tokens of a declared value: the pieces between commas if it contains
\* a comma, else the pieces between runs of whitespace; each piece without
\* the whitespace around it; no empty piece.
Tokens(d) ==
  LET n == Len(d)
      seps == IF \E i \in 1..n : d[i] = "," THEN {","} ELSE Whitespace
      Inner(k) == d[k] \notin Whitespace /\ d[k] \notin seps
      \* only whitespace lies between position a and the start of its piece
      StartsPiece(a) ==
        \E i \in 1..a :
          /\ i = 1 \/ d[i - 1] \in seps
          /\ \A k \in i..(a - 1) : d[k] \in Whitespace /\ d[k] \notin seps
      \* only whitespace lies between position b and the end of its piece
      EndsPiece(b) ==
        \E j \in b..n :
          /\ j = n \/ d[j + 1] \in seps
          /\ \A k \in (b + 1)..j : d[k] \in Whitespace /\ d[k] \notin seps
      starts == {a \in 1..n : Inner(a) /\ StartsPiece(a)}
      ends == {b \in 1..n : Inner(b) /\ EndsPiece(b)}
  IN { SubSeq(d, ab[1], ab[2]) :
         ab \in { x \in starts \X ends :
                    x[1] <= x[2] /\ \A k \in x[1]..x[2] : d[k] \notin seps } }

\* a declared value matches a filter value under a match mode
ValueMatches(matchMode, d, v) ==
  IF matchMode = "contains" THEN v \in Tokens(d) ELSE d = v

\* the tracked elements the page shows
Visible == {e \in Range(elements) : ~hidden[e]}

\* a pass has just completed
PassCompleted == pc = "done"

\* C1: after a completed pass a tracked element is visible iff every key of
\* the filter state is at the sentinel, or is not declared by the element, or
\* is declared with a value that matches under the match mode (AND over keys).
C1_VisibleIffAllKeysPass ==
  PassCompleted =>
    \A e \in Range(elements) :
      (~hidden[e]) <=>
        \A k \in DOMAIN currentFilters :
          \/ currentFilters[k] = cfg.allValue
          \/ k \notin DOMAIN ElemData(e)
          \/ ValueMatches(cfg.matchMode, ElemData(e)[k], currentFilters[k])

\* one key of the state matches the element, another fails, and it is hidden
C1_Witness ==
  /\ PassCompleted
  /\ \E e \in Range(elements) : \E k1, k2 \in DOMAIN currentFilters :
       /\ {k1, k2} \subseteq DOMAIN ElemData(e)
       /\ currentFilters[k1] # cfg.allValue
       /\ ValueMatches(cfg.matchMode, ElemData(e)[k1], currentFilters[k1])
       /\ currentFilters[k2] # cfg.allValue
       /\ ~ValueMatches(cfg.matchMode, ElemData(e)[k2], currentFilters[k2])
       /\ hidden[e]
  /\ Visible # {}

\* C2: after a completed pass an element that declares no attribute for key
\* k is shown or hidden exactly as with state[k] at the sentinel, whatever
\* state[k] is; an element that declares none of the keys is visible.
C2_VacuousMatch ==
  PassCompleted =>
    \A e \in Range(elements) :
      /\ \A k \in DOMAIN currentFilters \ DOMAIN ElemData(e) :
           hidden[e] =
             ~MatchesAllFilters(cfg, [currentFilters EXCEPT ![k] = cfg.allValue], e)
      /\ (DOMAIN currentFilters \cap DOMAIN ElemData(e) = {}) => ~hidden[e]

\* every key is off the sentinel, yet the element that declares none shows,
\* and so does the one that declares only the key that matches
C2_Witness ==
  /\ PassCompleted
  /\ \A k \in DOMAIN currentFilters : currentFilters[k] # cfg.allValue
  /\ currentFilters["season"] = sSummer
  /\ {"E1", "E3"} \subseteq Visible
  /\ "E2" \in Range(elements) /\ hidden["E2"]

\* C3: in contains mode a declared value d matches a filter value v iff v is
\* one of the tokens of d; with the examples: "forest, meadow" and "forest
\* meadow" match "forest" and "meadow", not "fore"; a value with a comma is
\* not split on whitespace; a value without tokens matches nothing.
C3_ContainsIsTokenMembership ==
  (mIn.done /\ mIn.mode = "contains") =>
    /\ mOut <=> (mIn.v \in Tokens(mIn.d))
    /\ mIn.d \in {sForestCommaMeadow, sForestSpaceMeadow} =>
         (mOut <=> mIn.v \in {sForest, sMeadow})
    /\ (mIn.d = <<"a", " ", "b", ",", "a">> /\ mIn.v = <<"b">>) => ~mOut
    /\ (\A i \in DOMAIN mIn.d : mIn.d[i] \in Whitespace) => ~mOut

C3_Witness ==
  /\ mIn.done /\ mIn.mode = "contains"
  /\ mIn.d = sForestCommaMeadow /\ mIn.v = sMeadow
  /\ mOut

\* C4: after a completed pass the no-results message, when there is one, is
\* shown iff no tracked element is visible (an empty tracked set included).
C4_NoResultsShownIffNoneVisible ==
  (PassCompleted /\ noResultsMessage # "null") =>
    ((~noResults.hidden) <=> Cardinality(Visible) = 0)

\* the tracked set is empty and the message is shown
C4_Witness ==
  /\ PassCompleted /\ noResultsMessage # "null"
  /\ elements = << >>
  /\ ~noResults.hidden

\* the decimal numeral of a small count
Numeral(n) ==
  CASE n = 0 -> <<"0">> [] n = 1 -> <<"1">> [] n = 2 -> <<"2">> [] n = 3 -> <<"3">>

\* C5: after a completed pass the status text, when there is a status
\* element, is the configured formatter applied to the number of visible
\* tracked elements; "<n> results found" with no formatter configured.
C5_StatusTextIsFormattedCount ==
  (PassCompleted /\ statusElement # "null") =>
    status.textContent =
      IF cfg.statusFormatter = "default"
      THEN Numeral(Cardinality(Visible)) \o sResultsFound
      ELSE CustomStatusFormatter(Cardinality(Visible))

\* nothing is visible and the default text says so
C5_Witness ==
  /\ PassCompleted /\ statusElement # "null"
  /\ cfg.statusFormatter = "default"
  /\ elements # << >> /\ Visible = {}
  /\ status.textContent = <<"0"," ","r","e","s","u","l","t","s"," ","f","o","u","n","d">>

\* the element is to be shown under the filter state cf
ShouldShow(cf, e) ==
  \A k \in DOMAIN cf :
    \/ cf[k] = cfg.allValue
    \/ k \notin DOMAIN ElemData(e)
    \/ ValueMatches(cfg.matchMode, ElemData(e)[k], cf[k])

\* what the running pass is to leave on the page
VisibilitySettled == \A e \in Range(elements) : hidden[e] = ~ShouldShow(currentFilters, e)

IndicatorSettled == noResultsMessage # "null" => (noResults.hidden = (Visible # {}))

StatusSettled ==
  statusElement # "null" =>
    status.textContent =
      IF cfg.statusFormatter = "default"
      THEN Numeral(Cardinality(Visible)) \o sResultsFound
      ELSE CustomStatusFormatter(Cardinality(Visible))

\* the page is as it was when the pass was entered
NothingAppliedYet ==
  /\ hidden = passStart.hidden
  /\ noResults.hidden = passStart.noResultsHidden
  /\ status.textContent = passStart.statusText

\* C6: the after hook receives visibleCount = the number of tracked elements
\* that are not hidden at that moment and totalCount = the size of the
\* tracked set, so 0 <= visibleCount <= totalCount.
C6_AfterCounts ==
  hookArg.hook = "after" =>
    /\ hookArg.visibleCount = Cardinality(Visible)
    /\ hookArg.totalCount = Cardinality(Range(elements))
    /\ 0 <= hookArg.visibleCount
    /\ hookArg.visibleCount <= hookArg.totalCount

\* the hook is running and was told of some, not all, elements visible
C6_Witness ==
  /\ pc = "inAfter"
  /\ 0 < hookArg.visibleCount
  /\ hookArg.visibleCount < hookArg.totalCount

\* the place of a step in a pass
Rank(step) ==
  CASE step = "before" -> 1 [] step = "visibility" -> 2 [] step = "noResults" -> 3
    [] step = "status" -> 4 [] step = "after" -> 5

\* C7: in a pass the before hook comes before any visibility change, the
\* visibility of every tracked element is set before the no-results message
\* and the status text are updated, both are updated before the after hook,
\* no step happens twice, and what the after hook finds on the page is what
\* the pass leaves there.
C7_PassOrder ==
  /\ [](/\ \A i, j \in DOMAIN trace : i < j => Rank(trace[i]) < Rank(trace[j])
        /\ pc \in {"inBefore", "loop"} => NothingAppliedYet
        /\ pc \in {"noResults", "status"} =>
             /\ VisibilitySettled
             /\ status.textContent = passStart.statusText
        /\ pc = "noResults" => noResults.hidden = passStart.noResultsHidden
        /\ pc = "inAfter" => VisibilitySettled /\ IndicatorSettled /\ StatusSettled)
  /\ [][(pc \in {"inAfter", "done", "threw"}) =>
          (UNCHANGED <<hidden, noResults, status>>)]_vars

\* the after hook runs last, after every other step changed the page
C7_Witness ==
  /\ pc = "inAfter"
  /\ trace = <<"before", "visibility", "noResults", "status", "after">>
  /\ hidden # passStart.hidden
  /\ noResults.hidden # passStart.noResultsHidden
  /\ status.textContent # passStart.statusText

\* C8: whatever a hook does to the mapping and the sequence it receives, the
\* filter state and the tracked elements of the engine stay as they are, and
\* the pass evaluates the engine's own state.
C8_HooksGetCopies ==
  /\ [](/\ passStart.entered =>
             /\ currentFilters = passStart.currentFilters
             /\ elements = passStart.elements
        /\ pc \in {"noResults", "status", "inAfter", "done"} =>
             \A e \in Range(passStart.elements) :
               hidden[e] = ~ShouldShow(passStart.currentFilters, e))
  /\ [][(pc \in {"inBefore", "inAfter"}) =>
          (UNCHANGED <<currentFilters, elements>>)]_vars

\* the before hook overwrote its mapping and reordered its sequence
C8_Witness ==
  /\ pc = "loop"
  /\ hookArg.hook = "before" /\ hookArg.move = "overwrite"
  /\ hookArg.currentFilters.val # currentFilters
  /\ hookArg.elements.val # elements
  /\ Len(elements) > 1

\* C9: when the after hook throws, the error leaves the operation (nothing
\* catches it), no pass is run or scheduled again, and the visibility of the
\* tracked elements, the no-results message and the status text stay as the
\* pass set them.
C9_AfterThrowKeepsResult ==
  /\ []((hookArg.hook = "after" /\ hookArg.move = "throw") =>
          /\ pc = "threw" /\ error = "after"
          /\ VisibilitySettled /\ IndicatorSettled /\ StatusSettled)
  /\ [][(pc = "threw" /\ error = "after") =>
          (/\ pc' = "idle"
           /\ UNCHANGED <<hidden, noResults, status, pending, engineVars>>)]_vars

\* the after hook threw after the pass changed the page
C9_Witness ==
  /\ pc = "threw" /\ error = "after"
  /\ hidden # passStart.hidden
  /\ noResults.hidden # passStart.noResultsHidden
  /\ status.textContent # passStart.statusText

\* C10: constructing with a missing or empty elements selector throws at
\* once and changes nothing: no style injected, no element discovered or
\* hidden, no control observed, no filter state, no engine.
C10_MissingSelectorFails ==
  /\ []((pc = "threw" /\ error = "required") =>
          /\ engine = "none" /\ ~ownerRef /\ cfg = NoCfg
          /\ elements = << >> /\ filters = << >>
          /\ currentFilters = EmptyObject
          /\ noResultsMessage = "null" /\ statusElement = "null")
  /\ [][(pc = "idle" /\ op'.name = "construct"
           /\ (op'.arg = Undefined \/ op'.arg = << >>)) =>
          (/\ pc' = "threw" /\ error' = "required"
           /\ UNCHANGED <<pageVars, engineVars, pending>>)]_vars

\* the empty selector was refused and no style has been injected
C10_Witness ==
  /\ pc = "threw" /\ error = "required"
  /\ op.name = "construct" /\ op.arg = << >>
  /\ ~baseStylesInjected

\* the no-results selector of the engine finds nothing
NoResultsAbsent == engine = "ready" /\ QuerySelector(cfg.noResultsSelector) = "null"

\* a status selector is configured and finds nothing
StatusAbsent ==
  /\ engine = "ready"
  /\ cfg.statusSelector # Undefined
  /\ QuerySelector(cfg.statusSelector) = "null"

\* C11: with a no-results or status selector that finds nothing, no operation
\* fails (only a hook of the owner can throw), the element the selector
\* missed is never touched, and every pass shows exactly the elements and
\* hands the after hook exactly the counts that the filter state alone
\* determines, as an engine with both targets does.
C11_MissingTargetsOnlyDisable ==
  (NoResultsAbsent \/ StatusAbsent) =>
    /\ pc = "threw" => error \in {"before", "after"}
    /\ NoResultsAbsent =>
         noResultsMessage = "null" /\ noResults = [hidden |-> TRUE, live |-> FALSE]
    /\ StatusAbsent =>
         statusElement = "null" /\ status = [textContent |-> sEmpty, live |-> FALSE]
    /\ pc \in {"noResults", "status", "inAfter", "done"} => VisibilitySettled
    /\ hookArg.hook = "after" =>
         /\ hookArg.visibleCount =
              Cardinality({e \in Range(elements) : ShouldShow(currentFilters, e)})
         /\ hookArg.totalCount = Len(elements)

\* both selectors find nothing and a change filtered some elements out
C11_Witness ==
  /\ NoResultsAbsent /\ StatusAbsent
  /\ PassCompleted /\ op.name \in {"change", "deferred"}
  /\ Visible # {} /\ Visible # Range(elements)
  /\ cfg.onAfterFilter # Undefined

\* the key a control is registered under
NameOf(c) == ControlDef(c).name

\* C12: when construction completes the filter state has an entry for the
\* name of every discovered control, holding that control's current value,
\* or the sentinel when the control has no value; and at every later moment
\* the name of every registered control is a key of the state.
C12_StateHoldsEveryControlValue ==
  /\ (op.name = "construct" /\ engine = "ready") =>
       \A c \in Range(filters) :
         /\ NameOf(c) \in DOMAIN currentFilters
         /\ currentFilters[NameOf(c)] =
              IF ctl[c].value = Undefined THEN cfg.allValue ELSE ctl[c].value
  /\ engine = "ready" =>
       \A c \in Range(filters) : NameOf(c) \in DOMAIN currentFilters

\* a change event is being handled: it starts a pass or queues one
ChangeStep ==
  /\ pc = "idle" /\ engine = "ready"
  /\ op'.name = "change" \/ pending' > pending

\* C13: a change event on a control named k whose value is v sets state[k] to
\* v whatever v is, leaves every other key and the tracked elements as they
\* are, and triggers one pass: it runs at once, or one callback is queued and
\* each queued callback runs one pass.
C13_ChangeSetsOneKey ==
  /\ [][ChangeStep =>
          (/\ \E c \in Range(filters) :
                currentFilters' =
                  [k \in DOMAIN currentFilters \cup {NameOf(c)} |->
                    IF k = NameOf(c) THEN ctl'[c].value ELSE currentFilters[k]]
           /\ elements' = elements
           /\ IF hasViewTransition
              THEN pending' = pending + 1 /\ pc' = "idle" /\ passStart' = NoPass
              ELSE /\ pending' = pending
                   /\ passStart'.entered
                   /\ passStart'.currentFilters = currentFilters')]_vars
  /\ [][(pending' < pending) =>
          (pending' = pending - 1 /\ ~passStart.entered /\ passStart'.entered)]_vars
  /\ [][(op.name \in {"change", "deferred"}) =>
          (passStart' = passStart \/ passStart' = NoPass)]_vars

\* the text control was set to a value no element declares as a whole, the
\* other key kept its value, and the pass of that change hid what declares
\* the key
C13_Witness ==
  /\ PassCompleted /\ op.name = "change" /\ op.arg = "c2"
  /\ cfg.matchMode = "equals"
  /\ currentFilters["tag"] = sMeadow /\ ctl["c2"].value = sMeadow
  /\ currentFilters["season"] = sSpring
  /\ \A e \in Range(elements) : DatasetGet(e, "tag") # sMeadow
  /\ {"E2", "E3"} \subseteq Range(elements) /\ hidden["E2"] /\ hidden["E3"]

\* the page shows what the filter state and the tracked elements determine
PageSettled == VisibilitySettled /\ IndicatorSettled /\ StatusSettled

\* C14: once every scheduled pass has run, the visibility of the tracked
\* elements, the no-results message and the status text are what the filter
\* state left by the change events determines, with or without the
\* transition facility, also when several change events came before the
\* first deferred pass ran. (A before hook of the owner that throws cuts a
\* pass short in either mode; the first conjunct is about engines without
\* one, the second about every engine.)
C14_DeferredSameAsImmediate ==
  /\ (engine = "ready" /\ ownerRef /\ pc = "idle" /\ pending = 0
        /\ cfg.onBeforeFilter = Undefined) => PageSettled
  /\ (PassCompleted /\ op.name \in {"change", "deferred"}) => PageSettled

\* two change events came before the first deferred pass ran; that pass has
\* completed with one more still queued, and the page already shows the
\* result of both changes
C14_Witness ==
  /\ hasViewTransition
  /\ PassCompleted /\ op.name = "deferred" /\ pending = 1
  /\ currentFilters["season"] = sSummer /\ currentFilters["tag"] = sForest
  /\ cfg.matchMode = "contains"
  /\ Visible # {} /\ Visible # Range(elements)

\* a pass is running
PassRunning == passStart.entered /\ pc \notin {"idle", "done", "threw"}

\* C15: a pass starts only when no call is running, so passes do not
\* interleave; between the first and the last step of a pass the filter
\* state and the tracked elements do not change; a pass evaluates the state
\* as it is when the pass starts; and while a change event is still owed
\* its pass, a deferred pass eventually starts.
C15_PassesDoNotInterleave ==
  /\ [][(passStart' # passStart /\ passStart'.entered) =>
          (pc = "idle" /\ ~passStart.entered
           /\ passStart'.currentFilters = currentFilters'
           /\ passStart'.elements = elements')]_vars
  /\ [][PassRunning =>
          (UNCHANGED <<currentFilters, elements>>
           /\ (passStart' = passStart \/ passStart' = NoPass))]_vars
  /\ [](PassRunning =>
          currentFilters = passStart.currentFilters /\ elements = passStart.elements)
  /\ (pending > 0) ~> (op.name = "deferred" /\ passStart.entered)

\* a deferred pass runs while the callback of a later change event waits
C15_Witness ==
  /\ PassRunning /\ op.name = "deferred"
  /\ pending > 0
  /\ pc = "noResults"

\* the place of a content element in the document
Pos(e) == CHOOSE i \in DOMAIN DocOrder : DocOrder[i] = e

\* s lists exactly the elements of S, each once, in document order
ListsInDocumentOrder(s, S) ==
  /\ Range(s) = S
  /\ \A i, j \in DOMAIN s : i < j => Pos(s[i]) < Pos(s[j])

\* C16: refreshElements() makes the tracked elements exactly the elements
\* that match the selector now, in document order, whatever was tracked
\* before; it leaves the filter state alone; and it runs one pass over the
\* new set before it returns.
C16_RefreshRescans ==
  /\ [][(pc = "idle" /\ op'.name = "refresh") =>
          (/\ ListsInDocumentOrder(elements', doc)
           /\ currentFilters' = currentFilters
           /\ passStart'.entered
           /\ passStart'.elements = elements')]_vars
  /\ [][(op.name = "refresh") =>
          (/\ UNCHANGED <<elements, currentFilters, doc>>
           /\ passStart' = passStart \/ passStart' = NoPass)]_vars
  /\ []((op.name = "refresh" /\ PassCompleted) =>
          /\ ListsInDocumentOrder(elements, doc)
          /\ \A e \in doc : hidden[e] = ~ShouldShow(currentFilters, e))

\* E1, which shows whenever it is tracked, is tracked and shown after a
\* refresh, and the status text of the pass before said nothing showed: it
\* came in with this refresh
C16_Witness ==
  /\ op.name = "refresh" /\ PassCompleted
  /\ statusElement # "null" /\ cfg.statusFormatter = "default"
  /\ passStart.statusText = <<"0">> \o sResultsFound
  /\ elements = DocOrder
  /\ "E1" \in Visible
  /\ \E e \in Range(elements) : hidden[e]

\* reset() is about to return
ResetReturns == op.name = "reset" /\ pc \in {"done", "returned"}

\* the control offers options and none of them is the sentinel
OffersOnlyOtherOptions(c) ==
  /\ ControlDef(c).kind = "select"
  /\ ControlDef(c).options # << >>
  /\ \A i \in DOMAIN ControlDef(c).options : ControlDef(c).options[i] # cfg.allValue

\* C17: when reset() returns, the value of every registered key is the
\* sentinel, or the first option of its control when the control offers
\* options none of which is the sentinel; for every kind of control and set
\* of options, whatever the state was before.
C17_ResetStateNeutral ==
  ResetReturns =>
    \A k \in DOMAIN currentFilters :
      \/ currentFilters[k] = cfg.allValue
      \/ \E c \in Range(filters) :
           /\ NameOf(c) = k
           /\ OffersOnlyOtherOptions(c)
           /\ currentFilters[k] = ControlDef(c).options[1]

\* the last of the registered controls that has the name k
LastNamed(k) ==
  LET i == CHOOSE j \in DOMAIN filters :
             /\ NameOf(filters[j]) = k
             /\ \A h \in DOMAIN filters : NameOf(filters[h]) = k => h <= j
  IN filters[i]

\* the filter state of an engine constructed now on this page: for every
\* name the value of its control, the sentinel if it has none
FreshFilters ==
  [k \in {NameOf(c) : c \in Range(filters)} |->
    IF ctl[LastNamed(k)].value = Undefined
    THEN cfg.allValue
    ELSE ctl[LastNamed(k)].value]

\* C18: when reset() returns, the tracked elements that show are those that
\* a freshly constructed engine shows on the same page with no filter
\* applied, whatever the filter state and the controls were before.
C18_ResetShowsWhatFreshEngineShows ==
  (op.name = "reset" /\ PassCompleted) =>
    \A e \in Range(elements) : hidden[e] = ~ShouldShow(FreshFilters, e)

\* a call of reset() begins
ResetCall == pc = "idle" /\ op'.name = "reset"

\* C19 as stated: every call of reset() runs exactly one pass, whatever the
\* number of registered controls, and the pass starts only after every
\* control and every entry of the filter state has been updated.
C19_ResetRunsOnePass ==
  /\ [][ResetCall => (passStart'.entered /\ ~passStart.entered)]_vars
  /\ [][(op.name = "reset") =>
          (/\ UNCHANGED <<ctl, currentFilters>>
           /\ passStart' = passStart \/ passStart' = NoPass)]_vars

\* C19 as the code has it: a call of reset() on an engine with at least one
\* registered control runs exactly one pass, which starts only after every
\* control and every entry of the filter state has been updated, however
\* many controls there are; on an engine without registered controls
\* reset() returns without running a pass.
C19_ResetRunsOnePassIfControls ==
  /\ [][ResetCall =>
          (IF filters # << >>
           THEN /\ passStart'.entered /\ ~passStart.entered
                /\ passStart'.currentFilters = currentFilters'
           ELSE /\ pc' = "returned" /\ passStart' = NoPass
                /\ UNCHANGED <<pageVars, engineVars>>)]_vars
  /\ [][(op.name = "reset") =>
          (/\ UNCHANGED <<ctl, currentFilters>>
           /\ passStart' = passStart \/ passStart' = NoPass)]_vars
  /\ []((op.name = "reset" /\ pc = "returned") => filters = << >>)

\* reset() ran its pass on the page with two controls after both had been
\* changed, and both entries were at the sentinel when the pass started
C19_Witness ==
  /\ op.name = "reset" /\ PassCompleted
  /\ Len(filters) = 2
  /\ passStart.currentFilters = [season |-> sAll, tag |-> sAll]
  /\ passStart.hidden # hidden

\* the control offers an option that is the sentinel
OffersSentinel(c) ==
  /\ ControlDef(c).kind = "select"
  /\ \E i \in DOMAIN ControlDef(c).options : ControlDef(c).options[i] = cfg.allValue

\* control c is at its neutral selection
Neutral(c) ==
  CASE ControlDef(c).kind = "select" ->
         /\ OffersSentinel(c) => ctl[c].value = cfg.allValue
         /\ OffersOnlyOtherOptions(c) => ctl[c].value = ControlDef(c).options[1]
    [] ControlDef(c).kind \in {"checkbox", "radio"} -> ~ctl[c].checked
    [] ControlDef(c).kind = "text" -> ctl[c].value = sEmpty
    [] OTHER -> TRUE

PassResult ==
  [hidden |-> hidden, noResultsHidden |-> noResults.hidden,
   statusText |-> status.textContent,
   visibleCount |-> locals.visibleCount, totalCount |-> locals.totalCount]

\* C21: a pass is idempotent: the pass that completed left what
\* filterElements computes from the page it found, and filterElements run
\* once more on the page it left, with the same filter state and the same
\* tracked elements, gives the same visibility of every element, the same
\* visibleCount and totalCount, the same no-results flag and status text.
C21_PassIdempotent ==
  PassCompleted =>
    /\ PassResult =
         FilterElements(passStart.hidden, passStart.noResultsHidden, passStart.statusText)
    /\ FilterElements(hidden, noResults.hidden, status.textContent) = PassResult

\* a deferred pass completed on a page that an earlier pass over the same
\* filter state had already filtered: nothing on the page moved
C21_Witness ==
  /\ PassCompleted /\ op.name = "deferred" /\ pending = 0
  /\ passStart.currentFilters = currentFilters /\ passStart.elements = elements
  /\ noResultsMessage # "null" /\ statusElement # "null"
  /\ passStart.hidden = hidden
  /\ passStart.noResultsHidden = noResults.hidden
  /\ passStart.statusText = status.textContent
  /\ Visible # {} /\ Visible # Range(elements)

\* the engine rests: no call runs and no pass is owed
Quiescent == engine = "ready" /\ pc = "idle" /\ pending = 0

\* C22 as stated: whenever the engine rests after a construction that
\* completed, and after any change, refresh or reset that followed, the
\* visibility of every tracked element is the match result for the current
\* filter state and tracked set.
C22_QuiescentIsSettled == (Quiescent /\ ownerRef) => VisibilitySettled

\* C22 as the code has it: every pass that gets past its before hook leaves
\* the visibility of every tracked element at the match result for the
\* current filter state and tracked set, and keeps it there until the
\* operation returns; the engine comes to rest with a visibility that
\* disagrees only out of a pass whose before hook threw, and stays so until
\* the next pass; an engine without a before hook never rests so.
C22_SettledUnlessBeforeThrew ==
  /\ []((PassCompleted \/ (pc = "threw" /\ error = "after")) => VisibilitySettled)
  /\ [][(Quiescent' /\ ~VisibilitySettled') =>
          (\/ pc = "threw" /\ error = "before"
           \/ Quiescent /\ ~VisibilitySettled
           \/ pc = "returned" /\ pending = 0 /\ ~VisibilitySettled)]_vars
  /\ []((Quiescent /\ cfg.onBeforeFilter = Undefined) => VisibilitySettled)

\* an engine with a before hook rests after a change that hid some elements
C22_Witness ==
  /\ Quiescent /\ ownerRef
  /\ cfg.onBeforeFilter # Undefined
  /\ currentFilters["season"] = sSummer
  /\ VisibilitySettled
  /\ Visible # {} /\ Visible # Range(elements)

\* the before hook of the running pass threw
BeforeThrew == hookArg.hook = "before" /\ hookArg.move = "throw"

\* C26: when the before hook throws, the error leaves the pass and the
\* operation (nothing catches it); the pass has changed nothing: the
\* visibility of every element, the no-results message and the status text
\* are as the pass found them, and the after hook is not called; no pass is
\* run or scheduled in its place; and when a change event started the pass,
\* the filter state already holds the new value of the control.
C26_BeforeThrowChangesNothing ==
  /\ [](BeforeThrew =>
          /\ pc = "threw" /\ error = "before"
          /\ NothingAppliedYet
          /\ trace = << "before" >>)
  /\ [][(pc = "threw" /\ error = "before") =>
          (/\ pc' = "idle"
           /\ UNCHANGED <<hidden, noResults, status, pending, engineVars>>)]_vars
  /\ []((BeforeThrew /\ op.name = "change") =>
          /\ currentFilters = passStart.currentFilters
          /\ currentFilters[NameOf(op.arg)] = ctl[op.arg].value)

\* the text control was changed to the value that a hidden element declares,
\* the before hook threw, and the element is still hidden under the old
\* status text
C26_Witness ==
  /\ BeforeThrew /\ op.name = "change" /\ op.arg = "c2"
  /\ currentFilters["tag"] = sForest
  /\ "E3" \in Range(elements) /\ ShouldShow(currentFilters, "E3") /\ hidden["E3"]
  /\ statusElement # "null" /\ status.textContent # sEmpty

\* filterElements is running, hooks included
InPass == pc \in {"inBefore", "loop", "noResults", "status", "inAfter"}

\* C27: a pass is read-only towards the engine: no step of filterElements,
\* hooks included, changes the filter state (no key added, removed or
\* overwritten), the tracked elements (membership or order) or the
\* configuration; a deferred pass leaves the whole engine as it is from its
\* first step on; and once the engine is constructed no change, refresh or
\* reset changes the configuration.
C27_PassIsReadOnly ==
  /\ [][InPass => UNCHANGED <<currentFilters, elements, cfg>>]_vars
  /\ [][(pc = "idle" /\ op'.name = "deferred") => UNCHANGED engineVars]_vars
  /\ [][(engine = "ready") => cfg' = cfg]_vars

\* a pass completed after both hooks ran and the after hook added to the
\* mapping and to the sequence it was handed; the pass changed the page
C27_Witness ==
  /\ PassCompleted
  /\ cfg.onBeforeFilter # Undefined
  /\ hookArg.hook = "after" /\ hookArg.move = "add"
  /\ hookArg.currentFilters.val # currentFilters
  /\ hookArg.elements.val # elements
  /\ hidden # passStart.hidden

\* C28: of the content elements the engine shows and hides the tracked ones
\* only: no step changes the visibility of a content element that is not
\* tracked; so an element that a refresh dropped from the tracked set keeps
\* the visibility of its last pass through every later pass and every
\* reset. (The no-results message is the target of the pass itself.)
C28_OnlyTrackedElementsChange ==
  [][\A e \in Elems \ Range(elements) : hidden'[e] = hidden[e]]_vars

\* an element was hidden, a refresh dropped it from the tracked set, and the
\* pass of a reset that put every key at the sentinel left it hidden
C28_Witness ==
  /\ op.name = "reset" /\ PassCompleted
  /\ "E2" \notin Range(elements) /\ "E2" \notin doc
  /\ hidden["E2"]
  /\ ShouldShow(currentFilters, "E2")
  /\ currentFilters = [season |-> sAll, tag |-> sAll]

\* the engines bindAll constructed for container k
InstancesOf(k) == {n \in DOMAIN instances : instances[n].container = k}

\* the container declares a non-empty elements selector
Qualifies(k) == ContainerDef(k).filterElements \notin {Undefined, sEmpty}

\* a call of bindAll begins
BindCall == pc = "idle" /\ op'.name = "bindAll"

\* a call of bindAll has ended, by returning or by throwing
BindEnded == op.name = "bindAll" /\ pc \in {"done", "threw"}

\* the engines constructed in this step
NewInstances == (Len(instances) + 1)..Len(instances')

\* C23 as stated: after every call of bindAll every container under its root
\* that declares a non-empty elements selector carries a marker, and one set
\* by bindAll refers to the one engine constructed for that container.
C23_EveryContainerBoundOnce ==
  BindEnded =>
    \A k \in Range(ContainersUnder(op.arg)) :
      Qualifies(k) =>
        /\ marker[k] # NoMarker
        /\ marker[k].by = "bindAll" => InstancesOf(k) = {marker[k].instance}

\* C23 as the code has it: at every moment a container has at most one
\* engine constructed by bindAll, the one its marker refers to; a call
\* constructs engines and attaches listeners only for containers without a
\* marker that declare a non-empty selector, and leaves every marker that
\* is set (by bindAll or by the owner) as it is, so a repeated call
\* constructs nothing and attaches nothing; after a call that returned,
\* every container under the root that declares a non-empty selector
\* carries a marker; a call throws only at a container whose selector is no
\* selector: that container stays without a marker and without an engine.
C23_EveryValidContainerBoundOnce ==
  /\ [](\A k \in DOMAIN marker :
          IF marker[k].by = "bindAll"
          THEN InstancesOf(k) = {marker[k].instance}
          ELSE InstancesOf(k) = {})
  /\ [][BindCall =>
          (/\ \A k \in DOMAIN marker : marker[k] # NoMarker => marker'[k] = marker[k]
           /\ SubSeq(instances', 1, Len(instances)) = instances
           /\ SubSeq(listeners', 1, Len(listeners)) = listeners
           /\ \A n \in NewInstances :
                LET k == instances'[n].container IN
                /\ k \in Range(ContainersUnder(op'.arg))
                /\ marker[k] = NoMarker /\ Qualifies(k)
                /\ marker'[k] = BoundMarker(n)
           /\ \A i \in (Len(listeners) + 1)..Len(listeners') :
                listeners'[i].instance \in NewInstances
           /\ (\A k \in Range(ContainersUnder(op'.arg)) :
                 Qualifies(k) => marker[k] # NoMarker) =>
                (pc' = "done" /\ UNCHANGED <<marker, instances, listeners>>))]_vars
  /\ []((op.name = "bindAll" /\ pc = "done") =>
          \A k \in Range(ContainersUnder(op.arg)) : Qualifies(k) => marker[k] # NoMarker)
  /\ []((op.name = "bindAll" /\ pc = "threw") =>
          \E k \in Range(ContainersUnder(op.arg)) :
            /\ ~SelectorParses(ContainerDef(k).filterElements)
            /\ marker[k] = NoMarker /\ InstancesOf(k) = {})

\* bindAll returned once more on a page whose first engine has since
\* handled a change event: the container bound by bindAll, the one marked by
\* the owner and the one bound last each kept their marker, the container
\* with the empty selector has none, and there are two engines
C23_Witness ==
  /\ op.name = "bindAll" /\ pc = "done"
  /\ DOMAIN marker = {"k1", "k3", "k4", "k6"}
  /\ marker["k1"] = BoundMarker(1)
  /\ marker["k3"] = OwnerMarker
  /\ marker["k4"] = NoMarker
  /\ marker["k6"] = BoundMarker(2)
  /\ Len(instances) = 2
  /\ instances[1].currentFilters["season"] = sSummer

\* C24 as stated: no two engines constructed by bindAll have the same root
\* and the same tracked elements.
C24_NoTwoEnginesPerScope ==
  \A i, j \in DOMAIN instances :
    i # j => ~(/\ instances[i].root = instances[j].root
               /\ instances[i].elements = instances[j].elements)

\* C24 as the code has it: no two engines constructed by bindAll belong to
\* the same container, because bindAll constructs an engine only for a
\* container without a marker and marks it in the same call; two engines
\* have the same root and the same tracked elements only when they belong
\* to two containers that lie in the same section, main or body.
C24_NoTwoEnginesPerContainer ==
  /\ [](\A i, j \in DOMAIN instances :
          /\ i # j => instances[i].container # instances[j].container
          /\ (i # j /\ instances[i].root = instances[j].root
                /\ instances[i].elements = instances[j].elements) =>
               ContainerDef(instances[i].container).scope =
                 ContainerDef(instances[j].container).scope)
  /\ [](\A n \in DOMAIN instances :
          /\ instances[n].root = ContainerDef(instances[n].container).scope
          /\ marker[instances[n].container] = BoundMarker(n))
  /\ [][\A n \in NewInstances : marker[instances'[n].container] = NoMarker]_vars

\* bindAll was called again on the page with two containers in one
\* section: there are two engines, one per container, with the same root
\* and the same tracked elements
C24_Witness ==
  /\ op.name = "bindAll" /\ pc = "done"
  /\ DOMAIN marker = {"k1", "k2"}
  /\ Len(instances) = 2
  /\ instances[1].container = "k1" /\ instances[2].container = "k2"
  /\ instances[1].root = instances[2].root
  /\ instances[1].elements = instances[2].elements
  /\ instances[1].elements # << >>
  /\ instances[2].currentFilters["tag"] = sForest

\* the listeners engine n attached
ListenerTargets(n) ==
  {listeners[i].target : i \in {j \in DOMAIN listeners : listeners[j].instance = n}}

\* C25: an engine constructed by bindAll for a container registers exactly
\* the named controls inside that container: its filters, the targets of
\* its change listeners and the keys of its filter state are those of the
\* controls in the container, and no control outside it.
C25_RegistersOwnControlsOnly ==
  \A n \in DOMAIN instances :
    LET own == ContainerDef(instances[n].container).controls IN
    /\ Range(instances[n].filters) = own
    /\ ListenerTargets(n) = own
    /\ DOMAIN instances[n].currentFilters = {NameOf(c) : c \in own}

====
